---- MODULE Spec2Model ----
(***************************************************************************)
(* Model of DoubleDQN.loss (pl_bolts/models/rl/double_dqn).                *)
(*                                                                         *)
(* The two Q-networks are tables from environment states to one value per  *)
(* action.  A batch is the 5-tuple of equally long tensors the replay      *)
(* buffer hands to loss().  Real numbers are exact rationals: Q-values and *)
(* rewards are integers, gamma is num/den, and every derived quantity      *)
(* (expected value, loss) is a record [num, den] compared by cross         *)
(* multiplication.                                                         *)
(***************************************************************************)
EXTENDS Integers, Sequences, FiniteSets

\* ---------------------------------------------------------------- bounds
NumStates == 2      \* distinct environment observations
NumActions == 2     \* size of the action space
MaxQ == 1           \* network outputs range over 0..MaxQ
MaxReward == 1      \* rewards range over 0..MaxReward
MaxBatch == 2       \* batch sizes 1..MaxBatch
GammaDen == 2       \* gamma ranges over 0/GammaDen .. GammaDen/GammaDen

States == 1..NumStates
Actions == 1..NumActions
QValues == 0..MaxQ
Rewards == 0..MaxReward

\* A network: state -> row of action values (self.net, self.target_net)
Networks == [States -> [Actions -> QValues]]

\* networks whose outputs may be negative as well
SignedQValues == (0 - MaxQ)..MaxQ

SignedNetworks == [States -> [Actions -> SignedQValues]]

\* gamma hyper-parameter as an exact rational in [0, 1]
Gammas == {[num |-> g, den |-> GammaDen] : g \in 0..GammaDen}

\* batch = (states, actions, rewards, dones, next_states), all of length n
BatchesOfSize(n) ==
    [states : [1..n -> States], actions : [1..n -> Actions],
     rewards : [1..n -> Rewards], dones : [1..n -> BOOLEAN],
     next_states : [1..n -> States]]

Batches == UNION {BatchesOfSize(n) : n \in 1..MaxBatch}

VARIABLES
    net,                            \* self.net
    target_net,                     \* self.target_net
    gamma,                          \* self.gamma
    batch,                          \* argument of loss()
    pc,                             \* "ready" before loss(), "done" after
    state_action_values,            \* locals of loss(), kept for inspection
    next_state_acts,
    next_state_values,
    expected_state_action_values,
    loss                            \* value returned by loss()

vars == <<net, target_net, gamma, batch, pc, state_action_values,
          next_state_acts, next_state_values, expected_state_action_values,
          loss>>

\* ------------------------------------------------------- tensor operators

\* network(x): one output row per batch element
Forward(network, xs) == [i \in DOMAIN xs |-> network[xs[i]]]

\* out.gather(1, idx.unsqueeze(-1)).squeeze(-1)
Gather(out, idx) == [i \in DOMAIN out |-> out[i][idx[i]]]

\* mutant: the arg-min index is taken instead of the arg-max
MaxIndicesArgMin(out) ==
    {idx \in [DOMAIN out -> Actions] :
        \A i \in DOMAIN out : \A b \in Actions : out[i][idx[i]] <= out[i][b]}

\* out.max(1)[1]: per row an index holding the row maximum.  Which of
\* several equal maxima is returned is left open, so every such index
\* vector is a possible result.
MaxIndices(out) ==
    {idx \in [DOMAIN out -> Actions] :
        \A i \in DOMAIN out : \A b \in Actions : out[i][idx[i]] >= out[i][b]}

\* mutant: the done mask is not applied
MaskedZeroSkipped(vals, dones) == vals

\* vals[dones] = 0.0
MaskedZero(vals, dones) ==
    [i \in DOMAIN vals |-> IF dones[i] THEN 0 ELSE vals[i]]

\* mutant: the discount factor is dropped
ExpectedValuesNoDiscount(nsv, g, rewards) ==
    [i \in DOMAIN nsv |->
        [num |-> nsv[i] * g.den + rewards[i] * g.den, den |-> g.den]]

\* next_state_values * self.gamma + rewards
ExpectedValues(nsv, g, rewards) ==
    [i \in DOMAIN nsv |->
        [num |-> nsv[i] * g.num + rewards[i] * g.den, den |-> g.den]]

RECURSIVE SumSeq(_, _)
SumSeq(f, n) == IF n = 0 THEN 0 ELSE f[n] + SumSeq(f, n - 1)

\* (x[i] - y[i])^2 as a rational over y[i].den^2
SquaredError(x, y) ==
    [i \in DOMAIN x |-> (x[i] * y[i].den - y[i].num) * (x[i] * y[i].den - y[i].num)]

\* mutant: reduction='sum' instead of the default 'mean'
MSELossSum(x, y) ==
    [num |-> SumSeq(SquaredError(x, y), Len(x)),
     den |-> y[1].den * y[1].den]

\* nn.MSELoss()(x, y): mean over the batch of the squared differences
MSELoss(x, y) ==
    [num |-> SumSeq(SquaredError(x, y), Len(x)),
     den |-> Len(x) * y[1].den * y[1].den]

\* ------------------------------------------------------------ state machine

Init ==
    /\ net \in Networks
    /\ target_net \in Networks
    /\ gamma \in Gammas
    /\ batch \in Batches
    /\ pc = "ready"
    /\ state_action_values = <<>>
    /\ next_state_acts = <<>>
    /\ next_state_values = <<>>
    /\ expected_state_action_values = <<>>
    /\ loss = [num |-> 0, den |-> 1]

\* DoubleDQN.loss(batch)
Loss ==
    /\ pc = "ready"
    /\ LET output == Forward(net, batch.states)
           next_outputs == Forward(net, batch.next_states)
           next_tgt_out == Forward(target_net, batch.next_states)
       IN \E acts \in MaxIndices(next_outputs) :
            LET sav == Gather(output, batch.actions)
                nsv == MaskedZero(Gather(next_tgt_out, acts), batch.dones)
                expected == ExpectedValues(nsv, gamma, batch.rewards)
            IN /\ state_action_values' = sav
               /\ next_state_acts' = acts
               /\ next_state_values' = nsv
               /\ expected_state_action_values' = expected
               /\ loss' = MSELoss(sav, expected)
    /\ pc' = "done"
    /\ UNCHANGED <<net, target_net, gamma, batch>>

Next == Loss

Spec == Init /\ [][Next]_vars

\* loss() on a single-transition batch, the networks' outputs of either sign
InitSigned ==
    /\ net \in SignedNetworks
    /\ target_net \in SignedNetworks
    /\ gamma \in Gammas
    /\ batch \in BatchesOfSize(1)
    /\ pc = "ready"
    /\ state_action_values = <<>>
    /\ next_state_acts = <<>>
    /\ next_state_values = <<>>
    /\ expected_state_action_values = <<>>
    /\ loss = [num |-> 0, den |-> 1]

SpecSigned == InitSigned /\ [][Next]_vars

\* ------------------------------------------------------------- properties

BatchIdx == 1..Len(batch.states)

RowMax(row) == CHOOSE v \in {row[a] : a \in Actions} : \A b \in Actions : v >= row[b]

\* DQN expected return, Q(s_t, a_t) = r_t + gamma * max_a Q'(s_t+1, a)
DQNNextStateValue(ns) == RowMax(target_net[ns])

DQNExpectedReturn(i) ==
    [num |-> DQNNextStateValue(batch.next_states[i]) * gamma.num
                + batch.rewards[i] * gamma.den,
     den |-> gamma.den]

\* actions at which the train network's output for state s is maximal
TrainGreedy(s) == {a \in Actions : \A b \in Actions : net[s][a] >= net[s][b]}

\* C1: for every transition not flagged done, the next-state value is the
\* target network's output for next_state at an action that maximises the
\* train network's output for next_state (so it equals the target network's
\* own maximum only where that maximum sits at a train-greedy action), and
\* the expected value is reward + gamma * that next-state value.
C1_DoubleTarget ==
    pc = "done" =>
        \A i \in BatchIdx :
            ~batch.dones[i] =>
                LET ns == batch.next_states[i]
                    e == expected_state_action_values[i]
                IN /\ \E a \in TrainGreedy(ns) :
                        next_state_values[i] = target_net[ns][a]
                   /\ next_state_values[i] = RowMax(target_net[ns]) =>
                        \E a \in TrainGreedy(ns) :
                            target_net[ns][a] = RowMax(target_net[ns])
                   /\ e.num * gamma.den =
                        (batch.rewards[i] * gamma.den
                            + gamma.num * next_state_values[i]) * e.den

\* a finished loss() with a live transition whose train-greedy action is
\* unique and whose Double DQN value is below the target network's maximum
C1_Witness ==
    /\ pc = "done"
    /\ \E i \in BatchIdx :
        /\ ~batch.dones[i]
        /\ Cardinality(TrainGreedy(batch.next_states[i])) = 1
        /\ next_state_values[i] < RowMax(target_net[batch.next_states[i]])
        /\ gamma.num > 0

\* C2: for every transition flagged done the next-state value is 0 and the
\* expected value equals the reward, whatever the networks output and
\* whatever gamma is; a transition not flagged done keeps the target
\* network's value at the chosen action.
C2_DoneZeroed ==
    pc = "done" =>
        \A i \in BatchIdx :
            LET e == expected_state_action_values[i]
            IN /\ batch.dones[i] =>
                    /\ next_state_values[i] = 0
                    /\ e.num = batch.rewards[i] * e.den
               /\ ~batch.dones[i] =>
                    next_state_values[i] =
                        target_net[batch.next_states[i]][next_state_acts[i]]

\* a finished loss() over a batch holding a done transition whose target
\* row is nowhere zero, under a positive gamma, next to a live transition
\* with a non-zero next-state value
C2_Witness ==
    /\ pc = "done"
    /\ gamma.num > 0
    /\ \E i \in BatchIdx :
        /\ batch.dones[i]
        /\ \A a \in Actions : target_net[batch.next_states[i]][a] > 0
    /\ \E j \in BatchIdx : ~batch.dones[j] /\ next_state_values[j] > 0

RECURSIVE SumSquaredDiff(_)
SumSquaredDiff(k) ==
    IF k = 0 THEN 0
    ELSE LET d == state_action_values[k] * gamma.den
                    - (next_state_values[k] * gamma.num
                        + batch.rewards[k] * gamma.den)
         IN d * d + SumSquaredDiff(k - 1)

\* C5: the state-action value of transition i is the train network's output
\* for state i at the action recorded for transition i; the returned loss
\* is the mean over the batch of the squared differences to the expected
\* values, is non-negative, and is 0 exactly when every transition's
\* state-action value equals its expected value.
C5_MeanSquaredError ==
    pc = "done" =>
        LET n == Len(batch.states)
        IN /\ \A i \in BatchIdx :
                state_action_values[i] = net[batch.states[i]][batch.actions[i]]
           /\ loss.den > 0
           /\ loss.num >= 0
           /\ loss.num * (n * gamma.den * gamma.den)
                = SumSquaredDiff(n) * loss.den
           /\ loss.num = 0 <=>
                \A i \in BatchIdx :
                    state_action_values[i] * expected_state_action_values[i].den
                        = expected_state_action_values[i].num

\* a finished loss() over two transitions, one matching its expected value
\* and one not, where a recorded action is not greedy for its state
C5_Witness ==
    /\ pc = "done"
    /\ Len(batch.states) = 2
    /\ loss.num > 0
    /\ \E i \in BatchIdx :
        state_action_values[i] * expected_state_action_values[i].den
            = expected_state_action_values[i].num
    /\ \E i \in BatchIdx : batch.actions[i] \notin TrainGreedy(batch.states[i])

====
